---------------------------- MODULE Spec2Model ----------------------------
(***************************************************************************)
(* CTRAD pre-transaction risk engine.                                      *)
(*                                                                         *)
(* Spec       : Scorer.score_pre_transaction (src/src/scoring /scorer.py)  *)
(*              called on a transaction, a features overlay, a frozen      *)
(*              snapshot of chain-data responses and a wall clock; a       *)
(*              second call may follow with a larger amount or at a later  *)
(*              wall-clock time.                                           *)
(* SpecGraph  : GraphReputation.score (src/src/graph/graph_reputation.py). *)
(* SpecSequence, SpecContract, SpecTabular : one call of                   *)
(*              SequenceModel.predict, ContractRiskEngine.score and        *)
(*              tabular_prob.                                              *)
(* SpecGateway: calls of _moralis_get (src/src/services/web3_api.py) with   *)
(*              its TTL cache, one at a time, while the clock advances.    *)
(* SpecHelpers: one call of a chain-data helper of web3_api.py or of an    *)
(*              EthereumClient getter (src/src/chain/eth_client.py).       *)
(* SpecThreads: two concurrent calls of _moralis_get on one cache key.     *)
(*                                                                         *)
(* Numbers.  Money is in cents.  Time is in seconds.  Rule points are      *)
(* integers (25 * 0.6 and 25 * 0.2 are exactly 15.0 and 5.0 in binary      *)
(* floating point).  A component score is kept as a numerator over         *)
(* max_possible_points until the verdict rounds it to thousandths.         *)
(* Impacts are in hundredths, base risks and graph scores in thousandths.  *)
(***************************************************************************)
EXTENDS Integers, Sequences, FiniteSets, TLC

VARIABLES
    tx,         \* the transaction dict handed to score_pre_transaction
    features,   \* the features overlay handed to score_pre_transaction
    chain,      \* frozen snapshot: the response of each chain-data request
    now,        \* wall clock read by datetime.now / datetime.utcnow
    verdict,    \* what the last call returned (NoCall before the first)
    prev,       \* the call before the last: its inputs and what it returned
    gaddr,      \* GraphReputation: the address queried
    gscore,     \* GraphReputation: the score returned (None before the call)
    seqcall,    \* SequenceModel.predict: its arguments and what it returned
    ccall,      \* ContractRiskEngine.score: its arguments and what it returned
    tcall,      \* tabular_prob: self, tx and what it returned
    cache,      \* web3_api._cache: cache key -> (timestamp, value)
    time,       \* time.time() of the process that holds the cache
    lookup,     \* the last call of a chain-data helper and how it ended
    threads     \* two concurrent calls of _moralis_get: position and locals

\* the variables of the sub-models and of the chain-data layer
modelVars == <<seqcall, ccall, tcall>>
gatewayVars == <<cache, time, lookup, threads>>

vars == <<tx, features, chain, now, verdict, prev, gaddr, gscore,
          modelVars, gatewayVars>>

----------------------------------------------------------------------------
(* Python values that are not plain numbers or strings                     *)

None == [kind |-> "none"]
IsNone(v) == v = None

Min(a, b) == IF a <= b THEN a ELSE b
Max(a, b) == IF a >= b THEN a ELSE b

\* round(num / den, k) on a non-negative quotient scaled by 10^k beforehand:
\* Python rounds to nearest, ties to even.
RoundHalfEven(num, den) ==
    LET q == num \div den
        r == num % den
    IN  IF 2 * r < den THEN q
        ELSE IF 2 * r > den THEN q + 1
        ELSE IF q % 2 = 0 THEN q ELSE q + 1

\* str.lower() on the characters that occur in the addresses of the model
LowerChar(c) ==
    CASE c = "A" -> "a" [] c = "B" -> "b" [] c = "C" -> "c" [] c = "D" -> "d"
      [] c = "E" -> "e" [] c = "F" -> "f" [] c = "X" -> "x" [] c = "S" -> "s"
      [] c = "M" -> "m" [] c = "T" -> "t" [] c = "K" -> "k" [] c = "N" -> "n"
      [] OTHER -> c

RECURSIVE Lower(_)
Lower(s) ==
    IF Len(s) = 0 THEN ""
    ELSE LowerChar(SubSeq(s, 1, 1)) \o Lower(SubSeq(s, 2, Len(s)))

\* s[:n]
Prefix(s, n) == SubSeq(s, 1, Min(n, Len(s)))


----------------------------------------------------------------------------
(* src/src/services/web3_api.py: what the helpers hand to the scorer       *)

\* a Python dict as a function from keys to values; d.get(k) is read with Has
Has(d, k) == k \in DOMAIN d

ErrorDict(reason) == [kind |-> "dict", error |-> TRUE, reason |-> reason]

\* isinstance(v, dict) and v.get("error")
IsErrorDict(v) == v.kind = "dict" /\ Has(v, "error") /\ v.error

\* Python truth value of a response: an empty dict or list is falsy
Truthy(v) ==
    CASE v.kind = "list" -> Len(v.items) > 0
      [] v.kind = "dict" -> DOMAIN v # {"kind"}
      [] OTHER -> FALSE

\* _moralis_get seen from the scorer: no key -> error marker; the request
\* fails (timeout, connection, HTTP status) -> request_failed; the body does
\* not decode -> json_decode_failed; else the decoded body.  fetch is the
\* outcome the frozen snapshot holds for the request.
MoralisGet(has_key, fetch) ==
    IF ~has_key THEN ErrorDict("no_api_key")
    ELSE IF fetch.outcome = "ok" THEN fetch.data
    ELSE IF fetch.outcome = "bad_json" THEN ErrorDict("json_decode_failed")
    ELSE ErrorDict("request_failed")

get_address_transactions(address, has_key, fetch) ==
    IF address = "" THEN ErrorDict("no_address")
    ELSE MoralisGet(has_key, fetch)

get_token_metadata(token_address, has_key, fetch) ==
    IF token_address = "" THEN [kind |-> "dict"]
    ELSE LET res == MoralisGet(has_key, fetch)
         IN  IF res.kind = "list" /\ Len(res.items) > 0 THEN res.items[1]
             ELSE res

\* float(res.get("usdPrice") or res.get("usd") or 0.0), in cents
get_token_price(token_address, has_key, fetch) ==
    IF token_address = "" THEN 0
    ELSE LET res == MoralisGet(has_key, fetch)
         IN  IF res.kind = "dict"
             THEN IF Has(res, "usdPrice") /\ res.usdPrice # 0 THEN res.usdPrice
                  ELSE IF Has(res, "usd") /\ res.usd # 0 THEN res.usd
                  ELSE 0
             ELSE 0

get_contract_metadata(contract_address, has_key, fetch) ==
    IF contract_address = "" THEN [kind |-> "dict"]
    ELSE MoralisGet(has_key, fetch)

----------------------------------------------------------------------------
(* Time                                                                    *)

SecondsPerHour == 3600
SecondsPerDay == 86400

\* datetime.hour of an instant
HourOf(t) == (t % SecondsPerDay) \div SecondsPerHour

\* dateutil.parser.parse: raises on a string that is no date
ParseTimestamp(ts) ==
    IF ts.kind = "iso" THEN [raised |-> FALSE, t |-> ts.t, aware |-> ts.aware]
    ELSE [raised |-> TRUE]

\* r.get("block_timestamp") or r.get("timestamp"); None when neither is set
ItemTimestamp(r) ==
    IF Has(r, "block_timestamp") /\ ~IsNone(r.block_timestamp) THEN r.block_timestamp
    ELSE IF Has(r, "timestamp") /\ ~IsNone(r.timestamp) THEN r.timestamp
    ELSE None

----------------------------------------------------------------------------
(* src/src/scoring /scorer.py: tables                                      *)

BLACKLIST ==
    { "0xscamdead00000000000000000000000000000000",
      "0xphishdead000000000000000000000000000000" }

RISKY_TOKENS == { "0xdeadtoken000000000000000000000000000000000" }

RuleNames ==
    { "blacklist", "high_amount", "fresh_wallet", "risky_token",
      "contract_unverified", "rapid_spam", "large_deviation", "dusting",
      "self_transfer", "odd_hour" }

RulePoints(name) ==
    CASE name = "blacklist" -> 30
      [] name = "high_amount" -> 25
      [] name = "fresh_wallet" -> 20
      [] name = "risky_token" -> 20
      [] name = "contract_unverified" -> 25
      [] name = "rapid_spam" -> 15
      [] name = "large_deviation" -> 20
      [] name = "dusting" -> 10
      [] name = "self_transfer" -> 10
      [] name = "odd_hour" -> 5

RECURSIVE SumPoints(_)
SumPoints(S) ==
    IF S = {} THEN 0
    ELSE LET n == CHOOSE n \in S : TRUE
         IN  RulePoints(n) + SumPoints(S \ {n})

\* max(_RULE_POINTS.values()) taken for the sum
MaxPointsAsLargest ==
    CHOOSE m \in {RulePoints(n) : n \in RuleNames} :
        \A n \in RuleNames : RulePoints(n) <= m

\* sum(_RULE_POINTS.values())
MaxPoints == SumPoints(RuleNames)

\* _norm(v, max_points) = max(0.0, min(1.0, v / max_points)), as a numerator
\* over MaxPoints (max_points is MaxPoints or, for the blacklist, v itself)
Norm(v, max_points) ==
    Max(0, Min(MaxPoints, (v * MaxPoints) \div max_points))

\* self.blacklist, self.risky_tokens: the sets lower-cased
ScorerBlacklist == { Lower(a) : a \in BLACKLIST }
ScorerRiskyTokens == { Lower(t) : t \in RISKY_TOKENS }

is_blacklisted(addr) == addr # "" /\ Lower(addr) \in ScorerBlacklist

\* "x" in r for the reason identifiers the scorer appends
HasSubstring(r, x) ==
    CASE x = "high_amount" -> r \in {"high_amount", "very_high_amount"}
      [] x = "contract_unverified" -> r = "contract_unverified"
      [] OTHER -> r = x

----------------------------------------------------------------------------
(* tabular_prob (src/src/scoring /scorer.py, lines 16-41): the fallback    *)
(* mapping of amount_usd, in hundredths                                    *)

tabular_prob_fallback(t) ==
    LET amt == IF Has(t, "amount_usd") THEN t.amount_usd ELSE 0
    IN  IF amt <= 100000 THEN 5
        ELSE IF amt <= 1000000 THEN 20
        ELSE IF amt <= 10000000 THEN 50
        ELSE 85

----------------------------------------------------------------------------
(* Scorer.score_pre_transaction, rule by rule.  st is the function's local *)
(* state: points, reasons and component_scores.  A rule's body either      *)
(* completes with a new local state or raises; every mutation of a rule    *)
(* comes after the last statement of the rule that can raise.              *)

Completed(st) == [raised |-> FALSE, st |-> st]
Raised == [raised |-> TRUE]

\* except Exception: pass  - an exception propagates to the caller
TryExceptMissing(outcome, st) ==
    IF outcome.raised THEN [st EXCEPT !.crashed = TRUE] ELSE outcome.st

\* try: <rule> except Exception: pass
TryExcept(outcome, st) ==
    IF outcome.raised THEN st ELSE outcome.st

\* lines 94-98: the locals read from the tx dict
TxString(t, k) == IF Has(t, k) THEN Lower(t[k]) ELSE ""
AmountUsd(t) == IF Has(t, "amount_usd") THEN t.amount_usd ELSE 0

StartState ==
    [ points |-> 0, reasons |-> <<>>, rules |-> 0, tabular |-> 0,
      sequence |-> 0, graph |-> 0, contract |-> 0, crashed |-> FALSE ]

AddPoints(st, pts, reason) ==
    [st EXCEPT !.points = @ + pts, !.reasons = Append(@, reason)]

\* the blacklist hit normalised by the sum of the table like every other rule
BlacklistRuleNormBySum(st, from_addr, to_addr) ==
    IF is_blacklisted(to_addr) \/ is_blacklisted(from_addr)
    THEN Completed([AddPoints(st, RulePoints("blacklist"), "address_on_blacklist")
                     EXCEPT !.rules = Max(st.rules,
                         Norm(RulePoints("blacklist"), MaxPoints))])
    ELSE Completed(st)

\* 1) Blacklist check
BlacklistRule(st, from_addr, to_addr) ==
    IF is_blacklisted(to_addr) \/ is_blacklisted(from_addr)
    THEN Completed([AddPoints(st, RulePoints("blacklist"), "address_on_blacklist")
                     EXCEPT !.rules = Max(st.rules,
                         Norm(RulePoints("blacklist"), RulePoints("blacklist")))])
    ELSE Completed(st)

\* the tabular component set from the raw points, _norm forgotten
AmountRuleRawPoints(st, amount_usd) ==
    LET s1 == IF amount_usd >= 10000000
              THEN AddPoints(st, RulePoints("high_amount"), "very_high_amount")
              ELSE IF amount_usd >= 1000000
              THEN AddPoints(st, (RulePoints("high_amount") * 6) \div 10, "high_amount")
              ELSE IF amount_usd >= 100000
              THEN [st EXCEPT !.points = @ + (RulePoints("high_amount") * 2) \div 10]
              ELSE st
    IN  Completed([s1 EXCEPT !.tabular = Max(s1.tabular, s1.points * MaxPoints)])

\* the partial credits of the two lower tiers exchanged
AmountRuleSwappedTiers(st, amount_usd) ==
    LET s1 == IF amount_usd >= 10000000
              THEN AddPoints(st, RulePoints("high_amount"), "very_high_amount")
              ELSE IF amount_usd >= 1000000
              THEN AddPoints(st, (RulePoints("high_amount") * 2) \div 10, "high_amount")
              ELSE IF amount_usd >= 100000
              THEN [st EXCEPT !.points = @ + (RulePoints("high_amount") * 6) \div 10]
              ELSE st
    IN  Completed([s1 EXCEPT !.tabular = Max(s1.tabular, Norm(s1.points, MaxPoints))])

\* 2) High amount thresholds (amounts in cents; 0.6 and 0.2 of the points)
AmountRule(st, amount_usd) ==
    LET s1 == IF amount_usd >= 10000000
              THEN AddPoints(st, RulePoints("high_amount"), "very_high_amount")
              ELSE IF amount_usd >= 1000000
              THEN AddPoints(st, (RulePoints("high_amount") * 6) \div 10, "high_amount")
              ELSE IF amount_usd >= 100000
              THEN [st EXCEPT !.points = @ + (RulePoints("high_amount") * 2) \div 10]
              ELSE st
    IN  Completed([s1 EXCEPT !.tabular = Max(s1.tabular, Norm(s1.points, MaxPoints))])

\* the age test of rule 3 on a non-empty history: any failure inside the
\* inner try leaves fresh False
FirstTxIsYoung(items, clock) ==
    LET ts == ItemTimestamp(items[1])
    IN  IF IsNone(ts) THEN FALSE
        ELSE LET dt == ParseTimestamp(ts)
             IN  IF dt.raised THEN FALSE
                 ELSE IF ~dt.aware THEN FALSE   \* aware - naive: TypeError
                 ELSE ((clock - dt.t) \div SecondsPerDay) < 30

\* 3) Fresh recipient wallet
FreshWalletRule(st, to_addr, feat, ch, clock) ==
    LET txs_to == get_address_transactions(to_addr, ch.has_key, ch.txs_to)
        fired == Completed(
            [AddPoints(st, RulePoints("fresh_wallet"), "recipient_fresh_wallet")
               EXCEPT !.rules = Max(st.rules, Norm(RulePoints("fresh_wallet"), MaxPoints))])
    IN  IF IsErrorDict(txs_to)
        THEN IF feat.kind = "none" THEN Raised   \* None.get: AttributeError
             ELSE IF Has(feat, "to_age_days") /\ feat.to_age_days < 30
                  THEN fired ELSE Completed(st)
        ELSE IF txs_to.kind = "list"
        THEN IF Len(txs_to.items) = 0 THEN fired
             ELSE IF FirstTxIsYoung(txs_to.items, clock) THEN fired
             ELSE Completed(st)
        ELSE Completed(st)

\* 4) Risky token list, else the zero-price heuristic
RiskyTokenRule(st, token_contract, ch) ==
    IF token_contract # "" /\ token_contract \in ScorerRiskyTokens
    THEN Completed(
            [AddPoints(st, RulePoints("risky_token"), "token_in_risky_list")
               EXCEPT !.contract = Max(st.contract, Norm(RulePoints("risky_token"), MaxPoints))])
    ELSE IF token_contract # ""
    THEN LET meta == get_token_metadata(token_contract, ch.has_key, ch.token_meta)
             price == get_token_price(token_contract, ch.has_key, ch.token_price)
         IN  IF price = 0 /\ Truthy(meta)
             THEN Completed(AddPoints(st, 2, "token_price_unavailable_or_zero"))
             ELSE Completed(st)
    ELSE Completed(st)

\* 5) Contract unverified
ContractUnverifiedRule(st, token_contract, ch) ==
    IF token_contract # ""
    THEN LET cmeta == get_contract_metadata(token_contract, ch.has_key, ch.contract_meta)
             is_verified ==
                 /\ cmeta.kind = "dict"
                 /\ \/ (Has(cmeta, "verified") /\ cmeta.verified)
                    \/ (Has(cmeta, "isVerified") /\ cmeta.isVerified)
         IN  IF ~is_verified
             THEN Completed(
                 [AddPoints(st, RulePoints("contract_unverified"), "contract_unverified")
                    EXCEPT !.contract = Max(st.contract,
                               Norm(RulePoints("contract_unverified"), MaxPoints))])
             ELSE Completed(st)
    ELSE Completed(st)

\* 6) Self-transfer
SelfTransferRule(st, from_addr, to_addr) ==
    IF from_addr # "" /\ to_addr # "" /\ from_addr = to_addr
    THEN Completed(
            [AddPoints(st, RulePoints("self_transfer"), "self_transfer")
               EXCEPT !.rules = Max(st.rules, Norm(RulePoints("self_transfer"), MaxPoints))])
    ELSE Completed(st)

\* 7) Odd hour: the hour of the tx timestamp, else of the wall clock
OddHourRule(st, t, clock) ==
    LET has_ts == Has(t, "timestamp")
        dt == IF has_ts THEN ParseTimestamp(t.timestamp) ELSE Raised
    IN  IF has_ts /\ dt.raised THEN Raised
        ELSE LET hr == IF has_ts THEN HourOf(dt.t) ELSE HourOf(clock)
             IN  IF hr < 3 \/ hr > 22
                 THEN Completed(
                     [AddPoints(st, RulePoints("odd_hour"), "odd_hour_tx")
                        EXCEPT !.rules = Max(st.rules, Norm(RulePoints("odd_hour"), MaxPoints))])
                 ELSE Completed(st)

\* the loop of rule 8: cnt_1h, or the exception that ends the loop
RECURSIVE CountLastHour(_, _)
CountLastHour(items, clock) ==
    IF Len(items) = 0 THEN [raised |-> FALSE, cnt |-> 0]
    ELSE LET ts == ItemTimestamp(Head(items))
             rest == CountLastHour(Tail(items), clock)
         IN  IF IsNone(ts) THEN rest
             ELSE LET dt == ParseTimestamp(ts)
                  IN  IF dt.raised THEN Raised
                      ELSE IF ~dt.aware THEN Raised   \* aware - naive: TypeError
                      ELSE IF rest.raised THEN Raised
                      ELSE IF clock - dt.t < SecondsPerHour
                           THEN [rest EXCEPT !.cnt = @ + 1]
                           ELSE rest

\* 8) Rapid spam / burst detection
RapidSpamRule(st, from_addr, ch, clock) ==
    LET recent == get_address_transactions(from_addr, ch.has_key, ch.txs_from20)
    IN  IF recent.kind = "list"
        THEN LET c == CountLastHour(recent.items, clock)
             IN  IF c.raised THEN Raised
                 ELSE IF c.cnt >= 5
                 THEN Completed(
                     [AddPoints(st, RulePoints("rapid_spam"), "rapid_sender_burst")
                        EXCEPT !.rules = Max(st.rules, Norm(RulePoints("rapid_spam"), MaxPoints))])
                 ELSE Completed(st)
        ELSE Completed(st)

\* 9) Dusting
DustingRule(st, from_addr, amount_usd, ch) ==
    IF amount_usd < 100
    THEN LET recent == get_address_transactions(from_addr, ch.has_key, ch.txs_from50)
         IN  IF recent.kind = "list" /\ Len(recent.items) > 10
             THEN Completed(
                 [AddPoints(st, RulePoints("dusting"), "possible_dusting")
                    EXCEPT !.rules = Max(st.rules, Norm(RulePoints("dusting"), MaxPoints))])
             ELSE Completed(st)
    ELSE Completed(st)

\* amount_usd / (sender_avg + 1e-9) >= 10.  Both are whole cents and
\* sender_avg stays below 10^5 dollars, where adding 1e-9 still changes the
\* double: the quotient reaches 10 exactly when amount_usd > 10 * sender_avg;
\* a negative average gives a quotient <= 0.
RatioAtLeastTen(amount_usd, sender_avg) ==
    sender_avg > 0 /\ amount_usd > 10 * sender_avg

\* 10) Large deviation from sender average
LargeDeviationRule(st, amount_usd, feat) ==
    IF feat.kind = "none" THEN Raised   \* None.get: AttributeError
    ELSE IF Has(feat, "sender_avg_tx_usd") /\ feat.sender_avg_tx_usd # 0
    THEN IF RatioAtLeastTen(amount_usd, feat.sender_avg_tx_usd)
         THEN Completed(
             [AddPoints(st, RulePoints("large_deviation"), "amount_much_larger_than_sender_avg")
                EXCEPT !.tabular = Max(st.tabular, Norm(RulePoints("large_deviation"), MaxPoints))])
         ELSE Completed(st)
    ELSE Completed(st)

----------------------------------------------------------------------------
(* Scorer.score_pre_transaction: normalisation and the verdict             *)

\* round() to the nearest integer in place of int()
RiskScoreRounded(points) ==
    Max(0, Min(100, RoundHalfEven(points * 100, MaxPoints)))

\* lines 271-273: int(round(points / max_points * 100, 2)) clamped to
\* 0..100; round(.., 2) is taken in hundredths, int() drops the fraction
RiskScore(points) ==
    LET hundredths == RoundHalfEven(points * 100 * 100, MaxPoints)
    IN  Max(0, Min(100, hundredths \div 100))

\* lines 276-285
ImpactOf(r) ==
    IF r = "address_on_blacklist" THEN 95
    ELSE IF HasSubstring(r, "high_amount") THEN 80
    ELSE IF HasSubstring(r, "contract_unverified") THEN 70
    ELSE 50

TopFeatures(reasons) ==
    [ i \in 1..Len(reasons) |->
        [feature |-> reasons[i], value |-> TRUE, impact |-> ImpactOf(reasons[i])] ]

\* "; ".join(reasons)
RECURSIVE Join(_)
Join(reasons) ==
    IF Len(reasons) = 0 THEN ""
    ELSE IF Len(reasons) = 1 THEN reasons[1]
    ELSE reasons[1] \o "; " \o Join(Tail(reasons))

NoFlagsText == "No immediate red flags detected (online checks OK)."

\* line 287
ReasonText(reasons) ==
    IF Len(reasons) > 0 THEN Join(reasons) ELSE NoFlagsText

\* the block threshold set below the high_risk threshold
ActionOfLoose(risk_score) ==
    IF risk_score >= 80 THEN "block"
    ELSE IF risk_score >= 60 THEN "warn"
    ELSE "allow"

\* lines 289-293
ActionOf(risk_score) ==
    IF risk_score >= 85 THEN "block"
    ELSE IF risk_score >= 60 THEN "warn"
    ELSE "allow"

\* line 297
LabelOf(risk_score) ==
    IF risk_score >= 85 THEN "high_risk"
    ELSE IF risk_score >= 60 THEN "suspicious"
    ELSE "safe"

\* line 298: round(v, 3) of a component, in thousandths
RoundComponent(v) == RoundHalfEven(v * 1000, MaxPoints)

\* lines 94-98: the locals of the call
Locals(t, feat, ch, clock) ==
    [ t |-> t, feat |-> feat, ch |-> ch, clock |-> clock,
      from_addr |-> TxString(t, "from_addr"),
      to_addr |-> TxString(t, "to_addr"),
      token_contract |-> TxString(t, "token_contract"),
      amount_usd |-> AmountUsd(t) ]

\* the body of the k-th try-block, in source order
RuleBody(k, st, a) ==
    CASE k = 1 -> BlacklistRule(st, a.from_addr, a.to_addr)
      [] k = 2 -> AmountRule(st, a.amount_usd)
      [] k = 3 -> FreshWalletRule(st, a.to_addr, a.feat, a.ch, a.clock)
      [] k = 4 -> RiskyTokenRule(st, a.token_contract, a.ch)
      [] k = 5 -> ContractUnverifiedRule(st, a.token_contract, a.ch)
      [] k = 6 -> SelfTransferRule(st, a.from_addr, a.to_addr)
      [] k = 7 -> OddHourRule(st, a.t, a.clock)
      [] k = 8 -> RapidSpamRule(st, a.from_addr, a.ch, a.clock)
      [] k = 9 -> DustingRule(st, a.from_addr, a.amount_usd, a.ch)
      [] k = 10 -> LargeDeviationRule(st, a.amount_usd, a.feat)

\* the ten try-blocks run one after the other; an exception that is not
\* caught ends the call
RECURSIVE RunRules(_, _, _)
RunRules(k, st, a) ==
    IF k > 10 \/ st.crashed THEN st
    ELSE RunRules(k + 1, TryExcept(RuleBody(k, st, a), st), a)

\* lines 270-304
VerdictOf(st, risk_score) ==
    [ kind |-> "verdict",
      risk_score |-> risk_score,
      risk_label |-> LabelOf(risk_score),
      component_scores |->
          [ rules |-> RoundComponent(st.rules),
            tabular |-> RoundComponent(st.tabular),
            sequence |-> RoundComponent(st.sequence),
            graph |-> RoundComponent(st.graph),
            contract |-> RoundComponent(st.contract) ],
      top_features |-> TopFeatures(st.reasons),
      reason_text |-> ReasonText(st.reasons),
      action |-> ActionOf(risk_score),
      raw_points |-> st.points,
      max_possible_points |-> MaxPoints ]

Finish(st) ==
    IF st.crashed THEN [kind |-> "exception"]
    ELSE VerdictOf(st, RiskScore(st.points))

\* what score_pre_transaction does: a Verdict, or an exception to the caller
score_pre_transaction(t, feat, ch, clock) ==
    Finish(RunRules(1, StartState, Locals(t, feat, ch, clock)))

----------------------------------------------------------------------------
(* The inputs score_pre_transaction is called on                           *)

\* wall clock of the first call: noon; of a later call: 02:00 the next day
FirstClock == 100 * SecondsPerDay + 12 * SecondsPerHour
LaterClock == FirstClock + 14 * SecondsPerHour

Iso(t) == [kind |-> "iso", t |-> t, aware |-> TRUE]
NaiveIso(t) == [kind |-> "iso", t |-> t, aware |-> FALSE]
Garbage == [kind |-> "garbage"]

FromAddrs == { "", "0x111AAA", "0xphishdead000000000000000000000000000000" }
ToAddrs == { "0x111aaa", "0xb0b2", "0xSCAMDEAD00000000000000000000000000000000" }
Tokens == { "", "0x70ce", "0xDeadToken000000000000000000000000000000000" }

\* cents: 0.50, 500, 1000, 10000, 100000 and 150000 dollars
Amounts == { 50, 50000, 100000, 1000000, 10000000, 15000000 }

\* the "timestamp" field when present: 23:00 two days before, or no date
TxTimestamps == { Iso(98 * SecondsPerDay + 23 * SecondsPerHour), Garbage }

TxAddresses == [from_addr : FromAddrs, to_addr : ToAddrs, token_contract : Tokens]

Transactions ==
    LET withAmount == TxAddresses \cup
            { b @@ ("amount_usd" :> a) : b \in TxAddresses, a \in Amounts }
    IN  withAmount \cup
            { b @@ ("timestamp" :> ts) : b \in withAmount, ts \in TxTimestamps }

\* features: None, {} or precomputed fields (sender average 40 dollars)
FeatureOverlays ==
    { None,
      [kind |-> "dict"],
      [kind |-> "dict", to_age_days |-> 5, sender_avg_tx_usd |-> 4000] }

\* outcomes of one request in the snapshot
Ok(data) == [outcome |-> "ok", data |-> data]
Failed(why) == [outcome |-> why]
NotIssued == [outcome |-> "not_issued"]

List(items) == [kind |-> "list", items |-> items]
HistoryItem(ts) == [kind |-> "dict", block_timestamp |-> ts]

\* a history of n transactions made ago seconds before the first call
Repeat(n, ago) == [i \in 1..n |-> HistoryItem(Iso(FirstClock - ago))]

\* recipient history (limit=1): failure, none, first tx 60 days old
ToHistories ==
    { Failed("timeout"), Ok(List(<<>>)), Ok(List(Repeat(1, 60 * SecondsPerDay))) }

\* the longest burst and the longest sender history of the snapshots
MaxBurst == 5
MaxHistory == 11

\* sender history (limit=20): failure, MaxBurst in the last ten minutes,
\* four in the last ten minutes followed by an undated one and one whose
\* timestamp carries no time zone
From20Histories ==
    { Failed("http_error"),
      Ok(List(Repeat(MaxBurst, 600))),
      Ok(List(Repeat(4, 600) \o <<[kind |-> "dict", hash |-> "0x1"]>>
                \o <<HistoryItem(NaiveIso(FirstClock - 2 * SecondsPerDay))>>)) }

\* sender history (limit=50), read only below one dollar
From50Histories ==
    { Ok(List(Repeat(10, SecondsPerDay))), Ok(List(Repeat(MaxHistory, SecondsPerDay))) }

\* token metadata, token price and contract metadata of a token contract
TokenLookups ==
    { [meta |-> Failed("timeout"), price |-> Failed("timeout"),
       contract |-> Failed("bad_json")],
      [meta |-> Ok(List(<<[kind |-> "dict", totalSupply |-> 1000]>>)),
       price |-> Ok([kind |-> "dict", usdPrice |-> 0]),
       contract |-> Ok([kind |-> "dict", verified |-> TRUE])],
      [meta |-> Ok([kind |-> "dict", totalSupply |-> 1000]),
       price |-> Ok([kind |-> "dict", usd |-> 150]),
       contract |-> Ok([kind |-> "dict", isVerified |-> FALSE])],
      [meta |-> Ok([kind |-> "dict", totalSupply |-> 1000]),
       price |-> Ok([kind |-> "dict", usd |-> 150]),
       contract |-> Ok([kind |-> "dict", isVerified |-> TRUE])] }

\* a token on the risky list: only its contract metadata is read
RiskyTokenLookups ==
    { [meta |-> NotIssued, price |-> NotIssued, contract |-> Failed("bad_json")],
      [meta |-> NotIssued, price |-> NotIssued,
       contract |-> Ok([kind |-> "dict", verified |-> TRUE])] }

\* The snapshot holds an outcome for exactly the requests the call issues:
\* none without an API key or for an empty address, the limit=50 history
\* only below one dollar, the token lookups only for a token contract.
Snapshots(t) ==
    LET from_addr == TxString(t, "from_addr")
        token == TxString(t, "token_contract")
        from20 == IF from_addr = "" THEN {NotIssued} ELSE From20Histories
        from50 == IF from_addr # "" /\ AmountUsd(t) < 100
                  THEN From50Histories ELSE {NotIssued}
        lookups == IF token = ""
                   THEN {[meta |-> NotIssued, price |-> NotIssued, contract |-> NotIssued]}
                   ELSE IF token \in ScorerRiskyTokens THEN RiskyTokenLookups
                   ELSE TokenLookups
    IN  { [has_key |-> TRUE, txs_to |-> a, txs_from20 |-> b, txs_from50 |-> c,
           token_meta |-> l.meta, token_price |-> l.price,
           contract_meta |-> l.contract] :
            a \in ToHistories, b \in from20, c \in from50, l \in lookups }
        \cup
        { [has_key |-> FALSE, txs_to |-> NotIssued, txs_from20 |-> NotIssued,
           txs_from50 |-> NotIssued, token_meta |-> NotIssued,
           token_price |-> NotIssued, contract_meta |-> NotIssued] }

----------------------------------------------------------------------------
(* Spec: calls of score_pre_transaction                                    *)

NoCall == [kind |-> "no_call"]

\* the parts of the program a specification does not exercise
ModelsIdle == seqcall = None /\ ccall = None /\ tcall = None
GatewayIdle == cache = None /\ time = 0 /\ lookup = None /\ threads = None

Init ==
    /\ tx \in Transactions
    /\ features \in FeatureOverlays
    /\ chain \in Snapshots(tx)
    /\ now = FirstClock
    /\ verdict = NoCall
    /\ prev = NoCall
    /\ gaddr = ""
    /\ gscore = None
    /\ ModelsIdle /\ GatewayIdle

ThisCall == [kind |-> "call", tx |-> tx, now |-> now, verdict |-> verdict]

\* the first call
Score ==
    /\ verdict = NoCall
    /\ verdict' = score_pre_transaction(tx, features, chain, now)
    /\ UNCHANGED <<tx, features, chain, now, prev, gaddr, gscore, modelVars, gatewayVars>>

\* a second call on the same transaction with a larger amount_usd, against
\* the same features, snapshot and wall clock
ScoreLargerAmount ==
    /\ verdict # NoCall
    /\ prev = NoCall
    /\ \E a \in Amounts :
        /\ a > AmountUsd(tx)
        /\ tx' = [k \in DOMAIN tx \cup {"amount_usd"} |->
                     IF k = "amount_usd" THEN a ELSE tx[k]]
        /\ verdict' = score_pre_transaction(tx', features, chain, now)
    /\ prev' = ThisCall
    /\ UNCHANGED <<features, chain, now, gaddr, gscore, modelVars, gatewayVars>>

\* a second call on the same transaction, features and snapshot at a later
\* wall-clock time
ScoreLater ==
    /\ verdict # NoCall
    /\ prev = NoCall
    /\ now' = LaterClock
    /\ verdict' = score_pre_transaction(tx, features, chain, now')
    /\ prev' = ThisCall
    /\ UNCHANGED <<tx, features, chain, gaddr, gscore, modelVars, gatewayVars>>

Next == Score \/ ScoreLargerAmount \/ ScoreLater

Spec == Init /\ [][Next]_vars

----------------------------------------------------------------------------
(* src/src/graph/graph_reputation.py.  base_risk is in thousandths; a      *)
(* product base_risk * factor is in units of 10^-5.                        *)

scam_clusters ==
    { [ name |-> "cluster_phishing", base_risk |-> 950,
        addresses |-> {"0x111aaa", "0x111bbb", "0x111ccc"} ],
      [ name |-> "cluster_mixer", base_risk |-> 750,
        addresses |-> {"0x222aaa", "0x222bbb"} ],
      [ name |-> "cluster_rugpull", base_risk |-> 900,
        addresses |-> {"0x333aaa", "0x333bbb", "0x333ccc"} ] }

\* what one cluster member adds to the candidates of max_risk (lines 58-69):
\* the four tests are independent ifs on Python slices of the whole string
PairRisks(addr, scam_addr, base_risk) ==
    (IF addr = scam_addr THEN {base_risk * 100} ELSE {})
    \cup (IF Prefix(addr, 6) = Prefix(scam_addr, 6) THEN {base_risk * 70} ELSE {})
    \cup (IF Prefix(addr, 4) = Prefix(scam_addr, 4) THEN {base_risk * 45} ELSE {})
    \cup (IF Prefix(addr, 2) = Prefix(scam_addr, 2) THEN {base_risk * 20} ELSE {})

SetMax(S) == CHOOSE m \in S : \A x \in S : x <= m

\* round(max_risk, 3) of the double that holds the product.  Of the products
\* of the table only 0.95 * 0.45 and 0.75 * 0.45 end in a 5 at the fourth
\* decimal: the first is the double just below 0.4275 and rounds down, the
\* second the double just above 0.3375 and rounds up.
RoundRisk(x) ==
    LET q == x \div 100
        r == x % 100
    IN  IF r < 50 THEN q
        ELSE IF r > 50 THEN q + 1
        ELSE IF x = 42750 THEN q
        ELSE q + 1

compute_distance(address) ==
    LET addr == Lower(address)
        risks == UNION { UNION { PairRisks(addr, Lower(m), c.base_risk) :
                                    m \in c.addresses } : c \in scam_clusters }
    IN  RoundRisk(SetMax(risks \cup {0}))

\* GraphReputation.score
GraphScore(address) == compute_distance(address)

----------------------------------------------------------------------------
(* SpecGraph: one call of GraphReputation.score                            *)

GraphPrefixes == { "0x", "0X", "1x" }
GraphHexPairs == { "11", "1a", "1b", "22", "2b", "33", "3a", "aa", "AA", "bb", "9f" }

\* the longest address queried, in pairs of hex characters after the prefix
MaxHexPairs == 3

RECURSIVE HexStrings(_)
HexStrings(n) ==
    IF n = 0 THEN {""}
    ELSE LET shorter == HexStrings(n - 1)
         IN  shorter \cup { h \o p : h \in { x \in shorter : Len(x) = 2 * (n - 1) },
                                     p \in GraphHexPairs }

\* the scorer takes no part in the calls of the sub-models and helpers
scorerVars == <<tx, features, chain, now, verdict, prev>>
ScorerIdle ==
    /\ tx = None /\ features = None /\ chain = None
    /\ now = FirstClock /\ verdict = NoCall /\ prev = NoCall

GraphAddrs == {""} \cup { p \o h : p \in GraphPrefixes, h \in HexStrings(MaxHexPairs) }

InitGraph ==
    /\ gaddr \in GraphAddrs
    /\ gscore = None
    /\ ScorerIdle /\ ModelsIdle /\ GatewayIdle

ScoreAddress ==
    /\ gscore = None
    /\ gscore' = [kind |-> "score", value |-> GraphScore(gaddr)]
    /\ UNCHANGED <<gaddr, scorerVars, modelVars, gatewayVars>>

NextGraph == ScoreAddress

SpecGraph == InitGraph /\ [][NextGraph]_vars

----------------------------------------------------------------------------
(* Properties of score_pre_transaction (under Spec)                        *)

Returned == verdict.kind = "verdict"
Components == {"rules", "tabular", "sequence", "graph", "contract"}

\* the identifiers of the rules that fired, as the verdict reports them
Reasons(v) == { v.top_features[i].feature : i \in 1..Len(v.top_features) }

\* the call before the last had the same inputs but a smaller amount_usd
LargerAmountPair ==
    /\ prev.kind = "call"
    /\ prev.now = now
    /\ Has(prev.tx, "amount_usd")
    /\ prev.tx.amount_usd <= tx.amount_usd

\* the call before the last had the same inputs at an earlier wall-clock time
SameInputsPair == prev.kind = "call" /\ prev.tx = tx

\* C1: every Verdict pairs label and action with risk_score: >= 85 gives
\* high_risk and block, 60..84 suspicious and warn, below 60 safe and allow.
C1_LabelActionConsistent ==
    Returned =>
        /\ verdict.risk_score >= 85 =>
              verdict.risk_label = "high_risk" /\ verdict.action = "block"
        /\ (verdict.risk_score >= 60 /\ verdict.risk_score < 85) =>
              verdict.risk_label = "suspicious" /\ verdict.action = "warn"
        /\ verdict.risk_score < 60 =>
              verdict.risk_label = "safe" /\ verdict.action = "allow"

C1_Witness ==
    Returned /\ verdict.risk_score >= 80 /\ verdict.risk_score < 85
             /\ verdict.action = "warn"

\* C2: for amount_usd >= 0 the Verdict has risk_score in [0, 100] and each
\* of the five component scores in [0, 1] (thousandths: 0..1000).
C2_ScoresInRange ==
    (Returned /\ AmountUsd(tx) >= 0) =>
        /\ verdict.risk_score >= 0 /\ verdict.risk_score <= 100
        /\ DOMAIN verdict.component_scores = Components
        /\ \A c \in Components :
              verdict.component_scores[c] >= 0 /\ verdict.component_scores[c] <= 1000

C2_Witness ==
    /\ Returned
    /\ verdict.component_scores.rules = 1000
    /\ verdict.component_scores.tabular > 0
    /\ verdict.component_scores.contract > 0
    /\ verdict.risk_score >= 85

\* C3 (as claimed): amount_usd = 150000 with to_addr on the blacklist gives
\* risk_score >= 85, action block and the reason address_on_blacklist.
C3_BlacklistedHighAmountBlocked ==
    (Returned /\ AmountUsd(tx) = 15000000
              /\ is_blacklisted(TxString(tx, "to_addr"))) =>
        /\ verdict.risk_score >= 85
        /\ verdict.action = "block"
        /\ "address_on_blacklist" \in Reasons(verdict)

\* the contract-metadata lookup of the call reports the contract verified
ContractVerified ==
    LET cmeta == get_contract_metadata(TxString(tx, "token_contract"),
                                       chain.has_key, chain.contract_meta)
    IN  /\ cmeta.kind = "dict"
        /\ \/ (Has(cmeta, "verified") /\ cmeta.verified)
           \/ (Has(cmeta, "isVerified") /\ cmeta.isVerified)

NoBlacklistOrContractHit ==
    /\ ~is_blacklisted(TxString(tx, "from_addr"))
    /\ ~is_blacklisted(TxString(tx, "to_addr"))
    /\ \/ TxString(tx, "token_contract") = ""
       \/ /\ TxString(tx, "token_contract") \notin ScorerRiskyTokens
          /\ ContractVerified

\* C4: below the lowest amount tier (1000 dollars), with neither endpoint
\* blacklisted and no token-contract hit, the Verdict is safe / allow
\* whatever the other rules do.
C4_SmallCleanTransferAllowed ==
    (Returned /\ AmountUsd(tx) < 100000 /\ NoBlacklistOrContractHit) =>
        verdict.risk_label = "safe" /\ verdict.action = "allow"

C4_Witness ==
    /\ Returned /\ AmountUsd(tx) < 100000 /\ NoBlacklistOrContractHit
    /\ {"recipient_fresh_wallet", "self_transfer", "odd_hour_tx",
        "rapid_sender_burst", "amount_much_larger_than_sender_avg",
        "token_price_unavailable_or_zero"} \subseteq Reasons(verdict)
    /\ verdict.risk_label = "safe"

\* C5 (as claimed): with a1 <= a2 and everything else equal, neither the
\* rules component nor the tabular component (nor the tier mapping of
\* tabular_prob) is lower for a2 than for a1.
C5_MonotoneInAmount ==
    (Returned /\ LargerAmountPair) =>
        /\ verdict.component_scores.rules >= prev.verdict.component_scores.rules
        /\ verdict.component_scores.tabular >= prev.verdict.component_scores.tabular
        /\ tabular_prob_fallback(tx) >= tabular_prob_fallback(prev.tx)

\* C5 (amended): the tabular component and the tier mapping never drop; the
\* rules component never drops unless the amounts lie on the two sides of
\* the one-dollar dusting threshold (a1 < 1 <= a2).
C5_MonotoneExceptDusting ==
    (Returned /\ LargerAmountPair) =>
        /\ (AmountUsd(prev.tx) >= 100 \/ AmountUsd(tx) < 100) =>
              verdict.component_scores.rules >= prev.verdict.component_scores.rules
        /\ verdict.component_scores.tabular >= prev.verdict.component_scores.tabular
        /\ tabular_prob_fallback(tx) >= tabular_prob_fallback(prev.tx)

C5_Witness ==
    /\ Returned /\ LargerAmountPair
    /\ AmountUsd(prev.tx) >= 100000
    /\ verdict.component_scores.tabular > prev.verdict.component_scores.tabular
    /\ "amount_much_larger_than_sender_avg" \in Reasons(prev.verdict)

\* C6 (as claimed): two calls with the same transaction, features and
\* frozen chain-data responses return identical Verdicts whatever the
\* wall-clock time of each call.
C6_Deterministic ==
    (Returned /\ SameInputsPair) => verdict = prev.verdict

\* every chain-data request of the call fails (or no API key is configured)
AllChainCallsFail ==
    \/ ~chain.has_key
    \/ \A k \in {"txs_to", "txs_from20", "txs_from50", "token_meta",
                 "token_price", "contract_meta"} : chain[k].outcome # "ok"

VerdictFields ==
    {"risk_score", "risk_label", "action", "component_scores",
     "top_features", "reason_text"}

\* C7: when every chain-data call fails the call still returns a complete
\* Verdict, no exception reaches the caller, and the graph and sequence
\* components are at their default 0.0.
C7_DegradesGracefully ==
    (verdict # NoCall /\ AllChainCallsFail) =>
        /\ verdict.kind = "verdict"
        /\ VerdictFields \subseteq DOMAIN verdict
        /\ verdict.component_scores.graph = 0
        /\ verdict.component_scores.sequence = 0

C7_Witness ==
    /\ Returned /\ AllChainCallsFail /\ chain.has_key
    /\ features = None
    /\ TxString(tx, "token_contract") # ""
    /\ TxString(tx, "from_addr") # ""

\* weight vectors in twentieths: five non-negative weights that sum to 1.0
Twentieths == 0..20
WeightVectors ==
    { w \in [Components -> Twentieths] :
        w.rules + w.tabular + w.sequence + w.graph + w.contract = 20 }

\* round(100 * sum of weight * component, 2), in hundredths
WeightedScore(w, v) ==
    RoundHalfEven(  w.rules * v.component_scores.rules
                  + w.tabular * v.component_scores.tabular
                  + w.sequence * v.component_scores.sequence
                  + w.graph * v.component_scores.graph
                  + w.contract * v.component_scores.contract, 2)

ReasonPoints(r) ==
    CASE r = "address_on_blacklist" -> 30
      [] r = "very_high_amount" -> 25
      [] r = "high_amount" -> 15
      [] r = "recipient_fresh_wallet" -> 20
      [] r = "token_in_risky_list" -> 20
      [] r = "token_price_unavailable_or_zero" -> 2
      [] r = "contract_unverified" -> 25
      [] r = "self_transfer" -> 10
      [] r = "odd_hour_tx" -> 5
      [] r = "rapid_sender_burst" -> 15
      [] r = "possible_dusting" -> 10
      [] r = "amount_much_larger_than_sender_avg" -> 20

RECURSIVE SumReasonPoints(_)
SumReasonPoints(fs) ==
    IF Len(fs) = 0 THEN 0
    ELSE ReasonPoints(Head(fs).feature) + SumReasonPoints(Tail(fs))

\* the lowest amount tier adds its 5 points without a reason
SilentTierPoints(t) ==
    IF AmountUsd(t) >= 100000 /\ AmountUsd(t) < 1000000 THEN 5 ELSE 0

C9_RulesIsTotalOverMax ==
    Returned =>
        verdict.component_scores.rules =
            RoundHalfEven(Min(verdict.raw_points, verdict.max_possible_points) * 1000,
                          verdict.max_possible_points)

\* the share a fired rule of the rules group contributes, in thousandths
RulesShare(r) ==
    CASE r = "address_on_blacklist" -> 1000
      [] r = "recipient_fresh_wallet" -> 111
      [] r = "rapid_sender_burst" -> 83
      [] r = "self_transfer" -> 56
      [] r = "possible_dusting" -> 56
      [] r = "odd_hour_tx" -> 28
      [] OTHER -> 0

\* C9 (amended): the rules component is the largest single share among the
\* fired rules blacklist (1.0), fresh_wallet, rapid_spam, self_transfer,
\* dusting and odd_hour (points / max_possible_points each), 0 when none of
\* them fired; it is not the total of the points.
C9_RulesIsLargestShare ==
    Returned =>
        /\ \A r \in Reasons(verdict) : verdict.component_scores.rules >= RulesShare(r)
        /\ \/ verdict.component_scores.rules = 0
           \/ \E r \in Reasons(verdict) : verdict.component_scores.rules = RulesShare(r)

C9_Witness ==
    /\ Returned
    /\ verdict.component_scores.rules = 111
    /\ {"recipient_fresh_wallet", "self_transfer", "rapid_sender_burst"}
           \subseteq Reasons(verdict)

----------------------------------------------------------------------------
(* Properties of GraphReputation.score (under SpecGraph)                   *)

\* the hex characters of an address after its two-character prefix
HexPart(a) == SubSeq(a, 3, Len(a))

\* the tier the claim gives a pair of addresses, in units of 10^-5
ClaimedPairRisk(addr, scam_addr, base_risk) ==
    IF addr = scam_addr THEN base_risk * 100
    ELSE IF Len(HexPart(addr)) >= 6 /\ Len(HexPart(scam_addr)) >= 6
            /\ Prefix(HexPart(addr), 6) = Prefix(HexPart(scam_addr), 6) THEN base_risk * 70
    ELSE IF Len(HexPart(addr)) >= 4
            /\ Prefix(HexPart(addr), 4) = Prefix(HexPart(scam_addr), 4) THEN base_risk * 45
    ELSE IF Len(HexPart(addr)) >= 2
            /\ Prefix(HexPart(addr), 2) = Prefix(HexPart(scam_addr), 2) THEN base_risk * 20
    ELSE 0

ClaimedGraphScore(address) ==
    LET addr == Lower(address)
        risks == UNION { { ClaimedPairRisk(addr, Lower(m), c.base_risk) :
                              m \in c.addresses } : c \in scam_clusters }
    IN  RoundHalfEven(SetMax(risks \cup {0}), 100)

\* C10 (as claimed): score(address) is the maximum over all cluster members
\* of base_risk on an exact match, else 0.70, 0.45 or 0.20 of base_risk when
\* the first 6, 4 or 2 hex characters after 0x match, else 0, rounded to
\* three decimals; an address sharing no leading hex character scores 0.
C10_PrefixTiers ==
    gscore.kind = "score" => gscore.value = ClaimedGraphScore(gaddr)


----------------------------------------------------------------------------
(* Further properties of score_pre_transaction (under Spec)                *)

\* C11 (as claimed): when from_addr is a member address of a known illicit
\* cluster, the graph component of the Verdict is that cluster's base_risk
\* (in thousandths).
C11_GraphComponentIsBaseRisk ==
    Returned =>
        \A c \in scam_clusters :
            TxString(tx, "from_addr") \in { Lower(m) : m \in c.addresses } =>
                verdict.component_scores.graph = c.base_risk

\* the try-blocks of the last call whose body raised
RECURSIVE RaisedRules(_, _, _)
RaisedRules(k, st, a) ==
    IF k > 10 THEN {}
    ELSE LET outcome == RuleBody(k, st, a)
         IN  (IF outcome.raised THEN {k} ELSE {})
                 \cup RaisedRules(k + 1, TryExcept(outcome, st), a)

RaisedInCall == RaisedRules(1, StartState, Locals(tx, features, chain, now))

\* the reason identifiers of a verdict, in order
FiredReasons(v) == [ i \in 1..Len(v.top_features) |-> v.top_features[i].feature ]

\* C17 (as claimed): when the evaluation of a rule raises, the Verdict is
\* still returned and reason_text carries a degraded-mode marker, something
\* besides the fired reasons and the canned no-flags message.
C17_FailureIsolatedAndFlagged ==
    (verdict # NoCall /\ RaisedInCall # {}) =>
        /\ Returned
        /\ verdict.reason_text # ReasonText(FiredReasons(verdict))

\* C18 (as claimed): top_features is ordered by impact descending and holds
\* at most 5 entries; reason_text is the fired reasons joined by "; ", or
\* the canned message exactly when none fired.
C18_TopFeaturesRankedAndBounded ==
    Returned =>
        /\ \A i \in 1..Len(verdict.top_features), j \in 1..Len(verdict.top_features) :
              i < j => verdict.top_features[i].impact >= verdict.top_features[j].impact
        /\ Len(verdict.top_features) <= 5
        /\ verdict.reason_text =
              IF Len(verdict.top_features) > 0 THEN Join(FiredReasons(verdict))
              ELSE NoFlagsText

\* the responses the helpers hand to the last call
TokenOfCall == TxString(tx, "token_contract")
ContractLookupFailed ==
    TokenOfCall # "" /\
    IsErrorDict(get_contract_metadata(TokenOfCall, chain.has_key, chain.contract_meta))
RecipientLookupFailed ==
    IsErrorDict(get_address_transactions(TxString(tx, "to_addr"),
                                         chain.has_key, chain.txs_to))
NoRecipientAgeFeature ==
    features.kind = "none" \/ ~Has(features, "to_age_days")

\* C19 (as claimed): a rule whose lookup failed adds neither points nor a
\* reason: contract_unverified does not fire when the contract-metadata
\* lookup failed, and recipient_fresh_wallet does not fire when the
\* recipient-history lookup failed and no to_age_days feature is given.
C19_UnknownFactsNeutral ==
    Returned =>
        /\ ContractLookupFailed => "contract_unverified" \notin Reasons(verdict)
        /\ (RecipientLookupFailed /\ NoRecipientAgeFeature) =>
              "recipient_fresh_wallet" \notin Reasons(verdict)

----------------------------------------------------------------------------
(* src/src/scoring /# src/scoring/sequence.py: SequenceModel.predict.      *)
(* Amounts are whole dollars.  The risk is a real number; the model keeps  *)
(* its hundredths, rounded down (0.10 is 10, 1.0 is 100).                  *)

\* the longest history handed to predict
MaxSeqLen == 4

Abs(x) == IF x < 0 THEN -x ELSE x

RECURSIVE SumSeq(_)
SumSeq(s) == IF Len(s) = 0 THEN 0 ELSE Head(s) + SumSeq(Tail(s))

\* floor of the square root
ISqrt(x) == CHOOSE k \in 0..x : k * k <= x /\ (k + 1) * (k + 1) > x

\* the guard with the bound off by one
TooShortOffByOne(history_amounts) ==
    \/ IsNone(history_amounts)
    \/ Len(history_amounts.items) = 0
    \/ Len(history_amounts.items) <= 3

\* not history_amounts or len(history_amounts) < 3
TooShort(history_amounts) ==
    \/ IsNone(history_amounts)
    \/ Len(history_amounts.items) = 0
    \/ Len(history_amounts.items) < 3

\* lines 21-35 over the rationals: with n = len, total = sum,
\*   avg = total / n, diffs[i] = (n * x[i] - total)^2 / n^2,
\*   std^2 = sum(diffs) / n, |current - avg| = dev / n,
\*   z^2 = dev^2 * n / sqsum when std >= 1e-6, z = dev * 10^6 / n otherwise.
\* Amounts being whole, std^2 = sqsum / n^3 is 0 or at least 1 / n^3, so
\* std < 1e-6 exactly when sqsum = 0.
Deviation(xs, current_amount) ==
    LET n == Len(xs)
        total == SumSeq(xs)
        sqsum == SumSeq([i \in 1..n |-> (n * xs[i] - total) * (n * xs[i] - total)])
        dev == Abs(n * current_amount - total)
    IN  IF sqsum = 0                                \* std < 1e-6
        THEN IF dev * 1000000 >= 5 * n THEN 100     \* min(z / 5, 1.0) = 1.0
             ELSE (dev * 1000000 * 100) \div (5 * n)
        ELSE IF dev * dev * n >= 25 * sqsum THEN 100
             ELSE ISqrt((dev * dev * n * 10000) \div (25 * sqsum))

predict(history_amounts, current_amount) ==
    IF TooShort(history_amounts) THEN 10
    ELSE Deviation(history_amounts.items, current_amount)

\* SpecSequence: one call of SequenceModel.predict.  history_amounts is
\* None or a list of at most MaxSeqLen amounts.
InitSequence ==
    /\ LET SeqAmounts == { 0, 1, 2, 10 }
           SeqHistories ==
               {None} \cup
               { List(h) : h \in UNION { [1..n -> SeqAmounts] : n \in 0..MaxSeqLen } }
       IN  seqcall \in [ kind : {"call"}, history_amounts : SeqHistories,
                         current_amount : SeqAmounts ]
    /\ ccall = None /\ tcall = None
    /\ gaddr = "" /\ gscore = None
    /\ ScorerIdle /\ GatewayIdle

Predict ==
    /\ seqcall.kind = "call"
    /\ seqcall' = [ kind |-> "returned",
                    history_amounts |-> seqcall.history_amounts,
                    current_amount |-> seqcall.current_amount,
                    risk |-> predict(seqcall.history_amounts, seqcall.current_amount) ]
    /\ UNCHANGED <<ccall, tcall, gaddr, gscore, scorerVars, gatewayVars>>

NextSequence == Predict

SpecSequence == InitSequence /\ [][NextSequence]_vars

\* the claimed value, from the mean and the population variance: with
\* n = len, S = sum and V = n * sum of squares - S^2 the variance is
\* V / n^2, |current - mean| is dev / n, and risk^2 = dev^2 / (25 * V).
ClaimedSequenceRisk(xs, current_amount) ==
    LET n == Len(xs)
        S == SumSeq(xs)
        V == n * SumSeq([i \in 1..n |-> xs[i] * xs[i]]) - S * S
        dev == Abs(n * current_amount - S)
    IN  IF V = 0                                    \* stddev below epsilon
        THEN IF dev = 0 THEN 0 ELSE 100
        ELSE IF dev * dev >= 25 * V THEN 100
        ELSE CHOOSE k \in 0..99 :
                /\ k * k * 25 * V <= dev * dev * 10000
                /\ (k + 1) * (k + 1) * 25 * V > dev * dev * 10000

Predicted == seqcall.kind = "returned"

\* C12: predict returns exactly 0.10 for a history of fewer than 3 amounts
\* (absent, empty, length 1 or 2) whatever the current amount; for 3 or
\* more it returns min(|current - mean| / max(population stddev, epsilon)
\* / 5, 1.0), which lies in [0, 1].
C12_SequencePredict ==
    Predicted =>
        /\ (IsNone(seqcall.history_amounts) \/ Len(seqcall.history_amounts.items) < 3)
              => seqcall.risk = 10
        /\ (~IsNone(seqcall.history_amounts) /\ Len(seqcall.history_amounts.items) >= 3)
              => seqcall.risk = ClaimedSequenceRisk(seqcall.history_amounts.items,
                                                    seqcall.current_amount)
        /\ seqcall.risk >= 0 /\ seqcall.risk <= 100

C12_Witness ==
    /\ Predicted
    /\ ~IsNone(seqcall.history_amounts)
    /\ Len(seqcall.history_amounts.items) = 3
    /\ seqcall.risk > 10 /\ seqcall.risk < 100

----------------------------------------------------------------------------
(* src/src /contract/contract_risk.py: ContractRiskEngine.score.           *)
(* The score is kept in tenths (0.9 is 9, 1.0 is 10); taxes are whole      *)
(* percents.                                                               *)

blacklisted_contracts == { "0xdeadbeef", "0xbadhoneypot", "0xscamtoken" }

\* str.upper() on the characters that occur in the symbols of the model
RECURSIVE Upper(_)
Upper(s) ==
    LET UpperChar(c) ==
            CASE c = "u" -> "U" [] c = "s" -> "S" [] c = "d" -> "D" [] c = "t" -> "T"
              [] c = "e" -> "E" [] c = "h" -> "H" [] c = "b" -> "B" [] c = "c" -> "C"
              [] OTHER -> c
    IN  IF Len(s) = 0 THEN ""
        ELSE UpperChar(SubSeq(s, 1, 1)) \o Upper(SubSeq(s, 2, Len(s)))

\* a string or a number where None may stand as well
PyStr(s) == [kind |-> "str", v |-> s]
PyInt(n) == [kind |-> "int", v |-> n]

\* tx.get(k, default)
TxGetOr(t, k, default) == IF Has(t, k) THEN t[k] ELSE default

\* one `if cond: score += w; reasons.append(r)` step
Contribute(acc, cond, w, r) ==
    IF cond THEN [score |-> acc.score + w, reasons |-> Append(acc.reasons, r)]
    ELSE acc

\* the sell-tax test with the threshold included
HighSellTaxInclusive(t) ==
    LET sell_tax == TxGetOr(t, "sell_tax", PyInt(0))
    IN  sell_tax.v # 0 /\ sell_tax.v >= 20

\* sell_tax and sell_tax > 20
HighSellTax(t) ==
    LET sell_tax == TxGetOr(t, "sell_tax", PyInt(0))
    IN  sell_tax.v # 0 /\ sell_tax.v > 20

\* buy_tax and buy_tax > 15
HighBuyTax(t) ==
    LET buy_tax == TxGetOr(t, "buy_tax", PyInt(0))
    IN  buy_tax.v # 0 /\ buy_tax.v > 15

\* symbol in {"USDT", "ETH", "BTC"}
PopularSymbol(t) ==
    Upper(TxGetOr(t, "token_symbol", PyStr("")).v) \in { "USDT", "ETH", "BTC" }

\* owner and owner != "renounced"
OwnerNotRenounced(t) ==
    LET owner == TxGetOr(t, "contract_owner", PyStr(""))
    IN  owner.v # "" /\ owner.v # "renounced"

\* score(contract_addr, tx): the pair returned, or the exception of
\* None.upper() when token_symbol is present and None
score(contract_addr, t) ==
    IF IsNone(contract_addr) \/ contract_addr.v = ""
    THEN [kind |-> "returned", score |-> 0, reasons |-> <<"No contract address provided">>]
    ELSE IF IsNone(TxGetOr(t, "token_symbol", PyStr("")))
    THEN [kind |-> "raised", error |-> "AttributeError"]
    ELSE
      LET addr == Lower(contract_addr.v)
          s0 == [score |-> 0, reasons |-> <<>>]
          s1 == Contribute(s0, addr \in blacklisted_contracts, 9, "Contract is blacklisted")
          s2 == Contribute(s1, PopularSymbol(t), 4, "Popular token symbol but unknown contract")
          s3 == Contribute(s2, HighSellTax(t), 6, "Very high sell tax (possible honeypot)")
          s4 == Contribute(s3, HighBuyTax(t), 4, "High buy tax")
          s5 == Contribute(s4, OwnerNotRenounced(t), 3, "Contract ownership not renounced")
      IN  [kind |-> "returned", score |-> Min(s5.score, 10), reasons |-> s5.reasons]

\* SpecContract: one call of ContractRiskEngine.score.  contract_addr is
\* None, empty, blacklisted in another case, or not blacklisted; each key of
\* the transaction context is absent or present.
InitContract ==
    /\ LET Optional(k, vals) == {<<>>} \cup { (k :> v) : v \in vals }
           ContractAddrs == { None, PyStr(""), PyStr("0xDEADBEEF"), PyStr("0xabc123") }
           ContractTxs ==
               { a @@ b @@ c @@ d :
                   a \in Optional("token_symbol",
                                  { None, PyStr("usdt"), PyStr("Eth"), PyStr("DOGE") }),
                   b \in Optional("sell_tax", { PyInt(0), PyInt(20), PyInt(25) }),
                   c \in Optional("buy_tax", { PyInt(15), PyInt(16) }),
                   d \in Optional("contract_owner",
                                  { PyStr(""), PyStr("renounced"), PyStr("0xowner") }) }
       IN  ccall \in [ kind : {"call"}, contract_addr : ContractAddrs, tx : ContractTxs ]
    /\ seqcall = None /\ tcall = None
    /\ gaddr = "" /\ gscore = None
    /\ ScorerIdle /\ GatewayIdle

ScoreContract ==
    /\ ccall.kind = "call"
    /\ ccall' = [ kind |-> "done", contract_addr |-> ccall.contract_addr, tx |-> ccall.tx,
                  result |-> score(ccall.contract_addr, ccall.tx) ]
    /\ UNCHANGED <<seqcall, tcall, gaddr, gscore, scorerVars, gatewayVars>>

NextContract == ScoreContract

SpecContract == InitContract /\ [][NextContract]_vars

ContractScored == ccall.kind = "done" /\ ccall.result.kind = "returned"

\* the conditions of the claim, read off the call's arguments
ContractConditions(c) ==
    LET t == c.tx
        present(k) == Has(t, k) /\ ~IsNone(t[k])
    IN  [ blacklist |-> Lower(c.contract_addr.v) \in blacklisted_contracts,
          impersonation |-> present("token_symbol")
                            /\ Upper(t["token_symbol"].v) \in { "USDT", "ETH", "BTC" },
          sell_tax |-> present("sell_tax") /\ t["sell_tax"].v > 20,
          buy_tax |-> present("buy_tax") /\ t["buy_tax"].v > 15,
          ownership |-> present("contract_owner")
                        /\ t["contract_owner"].v \notin { "", "renounced" } ]

ConditionWeight(name) ==
    CASE name = "blacklist" -> 9 [] name = "impersonation" -> 4
      [] name = "sell_tax" -> 6 [] name = "buy_tax" -> 4 [] name = "ownership" -> 3

RECURSIVE WeightSum(_)
WeightSum(names) ==
    IF names = {} THEN 0
    ELSE LET n == CHOOSE x \in names : TRUE
         IN  ConditionWeight(n) + WeightSum(names \ {n})

\* C13: an empty or absent contract address returns risk 0 with exactly one
\* reason; otherwise the risk is min(1.0, sum of the weights of the
\* conditions that hold) (blacklist 0.9, impersonation 0.4, sell tax above
\* its threshold 0.6, buy tax above its threshold 0.4, ownership not
\* renounced 0.3), with exactly one reason per contributing condition; a
\* sell_tax of 25 contributes 0.6 and a tax reason.
C13_ContractScore ==
    ContractScored =>
        LET r == ccall.result
            a == ccall.contract_addr
        IN  IF IsNone(a) \/ a.v = ""
            THEN r.score = 0 /\ Len(r.reasons) = 1
            ELSE
              LET conds == ContractConditions(ccall)
                  holding == { n \in DOMAIN conds : conds[n] }
              IN  /\ r.score = Min(10, WeightSum(holding))
                  /\ Len(r.reasons) = Cardinality(holding)
                  /\ Cardinality({ r.reasons[i] : i \in DOMAIN r.reasons }) = Len(r.reasons)
                  /\ (Has(ccall.tx, "sell_tax") /\ ccall.tx["sell_tax"].v = 25) =>
                        /\ r.score >= 6
                        /\ \E i \in DOMAIN r.reasons :
                              r.reasons[i] = "Very high sell tax (possible honeypot)"

\* a sell_tax of 25 alone on a non-blacklisted contract: 0.6 and one reason
C13_Witness ==
    /\ ContractScored
    /\ ~IsNone(ccall.contract_addr) /\ ccall.contract_addr.v = "0xabc123"
    /\ Has(ccall.tx, "sell_tax") /\ ccall.tx["sell_tax"].v = 25
    /\ ccall.result.score = 6
    /\ ccall.result.reasons = <<"Very high sell tax (possible honeypot)">>

----------------------------------------------------------------------------
(* src/src/scoring /scorer.py, lines 5-41: the model pair and tabular_prob. *)
(* Probabilities are kept in hundredths, amounts in cents.                 *)

NaN == [kind |-> "nan"]

\* float(tx.get('amount_usd') or 0.0); float(s) raises ValueError on a
\* string that is no number
FallbackAmount(t) ==
    LET a == TxGetOr(t, "amount_usd", None)
        FloatOfStr(s) ==
            IF s = "1500" THEN [kind |-> "float", cents |-> 150000]
            ELSE [kind |-> "raised", error |-> "ValueError"]
    IN  IF IsNone(a) THEN [kind |-> "float", cents |-> 0]
        ELSE IF a.kind = "int" THEN [kind |-> "float", cents |-> a.v]
        ELSE IF a.v = "" THEN [kind |-> "float", cents |-> 0]
        ELSE FloatOfStr(a.v)

\* lines 33-41
Fallback(t) ==
    LET amt == FallbackAmount(t)
    IN  IF amt.kind = "raised" THEN amt
        ELSE [kind |-> "returned",
              prob |-> tabular_prob_fallback([amount_usd |-> amt.cents])]

\* max(0.0, min(1.0, prob)); a comparison with NaN is false, so min keeps 1.0
Clamp01(prob) ==
    IF prob = NaN THEN 100 ELSE Max(0, Min(100, prob.v))

\* lines 21-29 inside the try
ModelBranch(run) ==
    IF run.pd = "unbound" THEN [kind |-> "raised", error |-> "NameError"]
    ELSE IF run.transform = "raises" THEN [kind |-> "raised", error |-> "Exception"]
    ELSE IF run.transform = "no_numeric_cols" THEN [kind |-> "returned", prob |-> 0]
    ELSE IF run.predict = PyStr("raises") THEN [kind |-> "raised", error |-> "Exception"]
    ELSE [kind |-> "returned", prob |-> Clamp01(run.predict)]

\* tabular_prob without the except clause
tabular_prob_uncaught(self, t, run) ==
    LET tried == IF self.has_lgbm /\ ~IsNone(self.fb) THEN ModelBranch(run)
                 ELSE [kind |-> "skipped"]
    IN  IF tried.kind \in { "returned", "raised" } THEN tried ELSE Fallback(t)

\* lines 16-41: try the model, on any exception or without a model fall back
tabular_prob(self, t, run) ==
    LET tried == IF self.has_lgbm /\ ~IsNone(self.fb) THEN ModelBranch(run)
                 ELSE [kind |-> "skipped"]
    IN  IF tried.kind = "returned" THEN tried ELSE Fallback(t)

\* SpecTabular: one call of tabular_prob.
\*   self, after lines 6-13: both pickles loaded, or neither;
\*   run, what the model branch meets: the name pd (scorer.py never binds
\*     it, so line 21 raises NameError; "pandas" is the module with the
\*     import supplied, which lets lines 22-29 run), fb.transform and
\*     lgbm.predict;
\*   tx: amount_usd absent, None, a number of cents, or a string.
InitTabular ==
    /\ LET TabularSelves ==
               { [has_lgbm |-> TRUE, fb |-> PyStr("feature_builder_v1"),
                  lgbm |-> PyStr("model_lgbm_v1")],
                 [has_lgbm |-> FALSE, fb |-> None, lgbm |-> None] }
           TabularRuns ==
               [ pd : { "unbound", "pandas" },
                 transform : { "raises", "no_numeric_cols", "numeric_cols" },
                 predict : { PyStr("raises"), NaN } \cup
                           { PyInt(p) : p \in { -50, 0, 37, 100, 250 } } ]
           TabularTxs ==
               { <<>> } \cup
               { ("amount_usd" :> v) :
                   v \in { None, PyStr("abc"), PyStr("1500") } \cup
                         { PyInt(c) : c \in { -100, 0, 100000, 100001, 1000000,
                                              1000001, 10000000, 10000001 } } }
       IN  tcall \in [ kind : {"call"}, self : TabularSelves, tx : TabularTxs,
                       run : TabularRuns ]
    /\ seqcall = None /\ ccall = None
    /\ gaddr = "" /\ gscore = None
    /\ ScorerIdle /\ GatewayIdle

TabularProb ==
    /\ tcall.kind = "call"
    /\ tcall' = [ kind |-> "done", self |-> tcall.self, tx |-> tcall.tx, run |-> tcall.run,
                  result |-> tabular_prob(tcall.self, tcall.tx, tcall.run) ]
    /\ UNCHANGED <<seqcall, ccall, gaddr, gscore, scorerVars, gatewayVars>>

NextTabular == TabularProb

SpecTabular == InitTabular /\ [][NextTabular]_vars

\* no model pair is loaded, or the transform or the inference raises
ModelUnavailable(c) ==
    \/ ~c.self.has_lgbm
    \/ c.run.pd = "unbound"
    \/ c.run.transform = "raises"
    \/ c.run.transform = "numeric_cols" /\ c.run.predict = PyStr("raises")

\* amount_usd missing or a number
AmountIsNumberOrMissing(t) ==
    ~Has(t, "amount_usd") \/ IsNone(t["amount_usd"]) \/ t["amount_usd"].kind = "int"

\* the tier of the claim: <= 1000 -> 0.05, <= 10000 -> 0.2, <= 100000 -> 0.5,
\* else 0.85, a missing amount counting as 0
ClaimedTier(t) ==
    LET cents == IF Has(t, "amount_usd") /\ ~IsNone(t["amount_usd"])
                 THEN t["amount_usd"].v ELSE 0
    IN  CASE cents <= 1000 * 100 -> 5
          [] cents > 1000 * 100 /\ cents <= 10000 * 100 -> 20
          [] cents > 10000 * 100 /\ cents <= 100000 * 100 -> 50
          [] OTHER -> 85

\* C14: when no model pair is loaded, or the transform or the inference
\* raises, tabular_prob returns exactly the amount tier (<= 1000 -> 0.05,
\* <= 10000 -> 0.2, <= 100000 -> 0.5, else 0.85, a missing amount as 0);
\* whatever path is taken, a returned value lies in [0, 1].
C14_TabularFailsClosed ==
    tcall.kind = "done" =>
        /\ (ModelUnavailable(tcall) /\ AmountIsNumberOrMissing(tcall.tx)) =>
              /\ tcall.result.kind = "returned"
              /\ tcall.result.prob = ClaimedTier(tcall.tx)
        /\ tcall.result.kind = "returned" =>
              tcall.result.prob >= 0 /\ tcall.result.prob <= 100

\* the inference raised with the pair loaded, and the tier 0.5 came back
C14_Witness ==
    /\ tcall.kind = "done"
    /\ tcall.self.has_lgbm /\ tcall.run.pd = "pandas"
    /\ tcall.run.transform = "numeric_cols" /\ tcall.run.predict = PyStr("raises")
    /\ tcall.tx = ("amount_usd" :> PyInt(10000000))
    /\ tcall.result = [kind |-> "returned", prob |-> 50]

----------------------------------------------------------------------------
(* src/src/services/web3_api.py: the TTL cache and _moralis_get, one call  *)
(* after another.  Time is time.time() in seconds since the process        *)
(* started; the cache maps a key to (ts, val).                             *)

CACHE_TTL == 60

\* the last instant of the clock
MaxClock == 62

\* the clock moves by these amounts between calls
ClockSteps == { 30, 31 }

\* f"moralis::{url}::{params}" for two requests
GatewayKeys == { "moralis::erc20/0xtok/price", "moralis::address/0xabc/transactions" }

\* outcomes of a request; decoded bodies are two objects and the JSON
\* value null
GatewayFetches ==
    { Ok([kind |-> "dict", usdPrice |-> 150]), Ok([kind |-> "dict", usdPrice |-> 151]),
      Ok(None),
      Failed("timeout"), Failed("connection"), Failed("http_error"), Failed("bad_json") }

EmptyCache == [k \in {} |-> None]

\* _get_cache(key) at time t: the value handed back and the cache left behind
get_cache(c, key, t) ==
    IF key \notin DOMAIN c THEN [val |-> None, cache |-> c]
    ELSE IF t - c[key].ts > CACHE_TTL
    THEN [val |-> None, cache |-> [k \in DOMAIN c \ {key} |-> c[k]]]
    ELSE [val |-> c[key].val, cache |-> c]

\* _set_cache(key, val) at time t
set_cache(c, key, val, t) ==
    [k \in DOMAIN c \cup {key} |-> IF k = key THEN [ts |-> t, val |-> val] ELSE c[k]]

\* _moralis_get with _set_cache also reached from the except clauses
moralis_get_caching_errors(c, t, has_key, key, fetch) ==
    IF ~has_key
    THEN [result |-> ErrorDict("no_api_key"), cache |-> c, issued |-> FALSE]
    ELSE
      LET got == get_cache(c, key, t)
          answer == IF fetch.outcome = "ok" THEN fetch.data
                    ELSE IF fetch.outcome = "bad_json" THEN ErrorDict("json_decode_failed")
                    ELSE ErrorDict("request_failed")
      IN  IF got.val # None
          THEN [result |-> got.val, cache |-> got.cache, issued |-> FALSE]
          ELSE [result |-> answer, cache |-> set_cache(got.cache, key, answer, t),
                issued |-> TRUE]

\* _moralis_get on cache c at time t: the value returned, the cache left
\* behind and whether requests.get was called
moralis_get(c, t, has_key, key, fetch) ==
    IF ~has_key
    THEN [result |-> ErrorDict("no_api_key"), cache |-> c, issued |-> FALSE]
    ELSE
      LET got == get_cache(c, key, t)
      IN  IF got.val # None                        \* cached is not None
          THEN [result |-> got.val, cache |-> got.cache, issued |-> FALSE]
          ELSE IF fetch.outcome = "ok"
          THEN [result |-> fetch.data,
                cache |-> set_cache(got.cache, key, fetch.data, t),
                issued |-> TRUE]
          ELSE IF fetch.outcome = "bad_json"
          THEN [result |-> ErrorDict("json_decode_failed"), cache |-> got.cache,
                issued |-> TRUE]
          ELSE [result |-> ErrorDict("request_failed"), cache |-> got.cache,
                issued |-> TRUE]

\* SpecGateway: lookups and clock advances
InitGateway ==
    /\ cache = EmptyCache
    /\ time = 0
    /\ lookup = None
    /\ threads = None
    /\ gaddr = "" /\ gscore = None
    /\ ScorerIdle /\ ModelsIdle

\* one call of _moralis_get; lookup keeps the call and the cache it met
Lookup(key, has_key, fetch) ==
    LET r == moralis_get(cache, time, has_key, key, fetch)
    IN  /\ cache' = r.cache
        /\ lookup' = [ kind |-> "lookup", key |-> key, has_key |-> has_key,
                       at |-> time, before |-> cache,
                       issued |-> r.issued, result |-> r.result ]
        /\ UNCHANGED <<time, threads, gaddr, gscore, scorerVars, modelVars>>

\* time passes
Tick(d) ==
    /\ time + d <= MaxClock
    /\ time' = time + d
    /\ UNCHANGED <<cache, lookup, threads, gaddr, gscore, scorerVars, modelVars>>

NextGateway ==
    \/ \E key \in GatewayKeys, has_key \in BOOLEAN, fetch \in GatewayFetches :
          Lookup(key, has_key, fetch)
    \/ \E d \in ClockSteps : Tick(d)

SpecGateway == InitGateway /\ [][NextGateway]_vars

\* the last call was a lookup with the API key configured
LookedUp == lookup # None /\ lookup.kind = "lookup" /\ lookup.has_key

\* the cache held an entry for the key fetched at most TTL ago
FreshBefore(l) ==
    /\ l.key \in DOMAIN l.before
    /\ l.at - l.before[l.key].ts <= CACHE_TTL

\* C15: a lookup issues a network request if and only if the cache holds no
\* entry for the key fetched at most TTL (60 s) ago; a hit returns the
\* stored value unchanged; an entry older than TTL is removed by the read
\* that finds it, and no entry is removed otherwise.
C15_TtlCache ==
    LookedUp =>
        /\ lookup.issued <=> ~FreshBefore(lookup)
        /\ FreshBefore(lookup) => lookup.result = lookup.before[lookup.key].val
        /\ \A k \in DOMAIN lookup.before :
              k \notin DOMAIN cache => (k = lookup.key /\ ~FreshBefore(lookup))
        /\ (lookup.key \in DOMAIN lookup.before /\ ~FreshBefore(lookup)) =>
              (lookup.key \in DOMAIN cache => cache[lookup.key].ts = lookup.at)

----------------------------------------------------------------------------
(* The chain-data helpers and the EthereumClient getters, one call each:   *)
(* does the call return, and what.                                         *)

Returns(v) == [kind |-> "returned", value |-> v]
Raises(e) == [kind |-> "raised", error |-> e]

\* outcomes of a helper's request.  A body of the price endpoint carries a
\* price that is a number of cents, a string, or missing.
HelperFetches(helper) ==
    LET FetchFailures ==
            { Failed("timeout"), Failed("connection"), Failed("http_error"),
              Failed("bad_json") }
        PriceBodies ==
            { [kind |-> "dict", usdPrice |-> PyInt(150)],
              [kind |-> "dict", usdPrice |-> PyInt(0), usd |-> PyInt(151)],
              [kind |-> "dict", usd |-> PyStr("1.5")],
              [kind |-> "dict", usdPrice |-> PyStr("N/A")],
              [kind |-> "dict"], List(<<>>), None }
        OtherBodies ==
            { [kind |-> "dict", verified |-> TRUE], [kind |-> "dict"],
              List(<<[kind |-> "dict", totalSupply |-> 1000]>>), List(<<>>), None }
    IN  FetchFailures \cup
        { Ok(b) : b \in IF helper = "get_token_price" THEN PriceBodies ELSE OtherBodies }

\* the cache key of a helper's request
HelperKey(helper, address) ==
    CASE helper = "get_address_transactions" -> "moralis::address/" \o address \o "/transactions"
      [] helper = "get_token_metadata" -> "moralis::erc20/metadata::" \o address
      [] helper = "get_token_price" -> "moralis::erc20/" \o address \o "/price"
      [] helper = "get_contract_metadata" -> "moralis::contract/" \o address \o "/metadata"

\* get_token_price, lines 131-141, on the value res that _moralis_get
\* returned.  PriceTruthy is the Python truth value of a price field;
\* FloatOfPrice is float(p) in cents, which raises ValueError on a string
\* that is no number.
token_price(token_address, res) ==
    IF token_address = "" THEN Returns(0)
    ELSE IF IsNone(res) \/ res.kind # "dict" THEN Returns(0)
    ELSE
      LET usdPrice == IF Has(res, "usdPrice") THEN res.usdPrice ELSE None
          usd == IF Has(res, "usd") THEN res.usd ELSE None
          PriceTruthy(p) ==
              CASE IsNone(p) -> FALSE
                [] p.kind = "int" -> p.v # 0
                [] p.kind = "str" -> p.v # ""
          FloatOfPrice(p) ==
              IF p.kind = "int" THEN Returns(p.v)
              ELSE IF p.v = "1.5" THEN Returns(150)
              ELSE Raises("ValueError")
      IN  IF PriceTruthy(usdPrice) THEN FloatOfPrice(usdPrice)
          ELSE IF PriceTruthy(usd) THEN FloatOfPrice(usd)
          ELSE Returns(0)

\* get_token_metadata, lines 117-128, on the value res
token_metadata(token_address, res) ==
    IF token_address = "" THEN [kind |-> "dict"]
    ELSE IF ~IsNone(res) /\ res.kind = "list" /\ Len(res.items) > 0 THEN res.items[1]
    ELSE res

\* the outcome of a helper call whose request ends as fetch
HelperOutcome(helper, address, has_key, fetch) ==
    LET res == moralis_get(EmptyCache, 0, has_key, HelperKey(helper, address), fetch).result
    IN  CASE helper = "get_address_transactions" ->
               Returns(IF address = "" THEN ErrorDict("no_address") ELSE res)
          [] helper = "get_token_metadata" -> Returns(token_metadata(address, res))
          [] helper = "get_token_price" -> token_price(address, res)
          [] helper = "get_contract_metadata" ->
               Returns(IF address = "" THEN [kind |-> "dict"] ELSE res)

\* outcomes of a getter's request, with the bodies the Etherscan API sends
EthFetches ==
    LET EthBodies ==
    { [kind |-> "dict", result |-> PyStr("0x1a")],
      [kind |-> "dict", result |-> PyStr("Max rate limit reached")],
      [kind |-> "dict", result |-> None],
      [kind |-> "dict"],
      [kind |-> "dict", result |-> List(<<>>)],
      [kind |-> "dict", result |-> List(<<[kind |-> "dict", timeStamp |-> FirstClock - 5 * SecondsPerDay - 7, SourceCode |-> "contract C {}"]>>)],
      [kind |-> "dict", result |-> List(<<[kind |-> "dict", SourceCode |-> ""]>>)],
      List(<<>>) }
    IN  { Failed("timeout"), Failed("connection"), Failed("bad_json") } \cup
        { Ok(b) : b \in EthBodies }

\* the body of each getter's try block; HexOf is int(s, 16) for the
\* strings of the model
EthTry(getter, fetch, clock) ==
    IF fetch.outcome # "ok" THEN Raises("Exception")
    ELSE LET data == fetch.data
             has == data.kind = "dict" /\ Has(data, "result")
             HexOf(s) ==
                 IF s = "0x1a" THEN Returns(26)
                 ELSE IF s = "0x0" THEN Returns(0)
                 ELSE Raises("ValueError")
         IN
      CASE getter = "get_wallet_tx_count" ->
             IF data.kind # "dict" THEN Raises("AttributeError")
             ELSE IF ~has THEN HexOf("0x0")
             ELSE IF IsNone(data.result) \/ data.result.kind # "str" THEN Raises("TypeError")
             ELSE HexOf(data.result.v)
        [] getter = "get_wallet_age_days" ->
             IF data.kind # "dict" THEN Raises("AttributeError")
             ELSE IF ~has \/ IsNone(data.result) THEN Returns(0)
             ELSE IF data.result.kind = "str" THEN Raises("TypeError")
             ELSE IF Len(data.result.items) = 0 THEN Returns(0)
             ELSE IF ~Has(data.result.items[1], "timeStamp") THEN Raises("KeyError")
             ELSE Returns((clock - data.result.items[1].timeStamp) \div SecondsPerDay)
        [] getter = "is_contract_verified" ->
             IF data.kind # "dict" THEN Raises("AttributeError")
             ELSE IF ~has THEN Returns(FALSE)
             ELSE IF IsNone(data.result) THEN Raises("TypeError")
             ELSE IF data.result.kind = "str" THEN Raises("AttributeError")
             ELSE IF Len(data.result.items) = 0 THEN Raises("IndexError")
             ELSE Returns(Has(data.result.items[1], "SourceCode")
                          /\ data.result.items[1].SourceCode # "")

\* except Exception: return 0 / 0 / False
EthOutcome(getter, fetch, clock) ==
    LET tried == EthTry(getter, fetch, clock)
    IN  IF tried.kind = "returned" THEN tried
        ELSE Returns(IF getter = "is_contract_verified" THEN FALSE ELSE 0)

\* SpecHelpers: one call of a helper or of a getter
InitHelpers ==
    /\ cache = EmptyCache
    /\ time = 0
    /\ LET HelperNames ==
               { "get_address_transactions", "get_token_metadata", "get_token_price",
                 "get_contract_metadata" }
           EthGetters ==
               { "get_wallet_tx_count", "get_wallet_age_days", "is_contract_verified" }
       IN  lookup \in
             { [kind |-> "helper_call", helper |-> h, address |-> a, has_key |-> k,
                fetch |-> f] :
                 h \in HelperNames, a \in { "", "0xabc" }, k \in BOOLEAN,
                 f \in UNION { HelperFetches(x) : x \in HelperNames } }
             \cup
             { [kind |-> "getter_call", getter |-> g, fetch |-> f] :
                 g \in EthGetters, f \in EthFetches }
    /\ lookup.kind = "helper_call" => lookup.fetch \in HelperFetches(lookup.helper)
    /\ threads = None
    /\ gaddr = "" /\ gscore = None
    /\ ScorerIdle /\ ModelsIdle

CallHelper ==
    /\ lookup.kind = "helper_call"
    /\ lookup' = [ kind |-> "helper_done", helper |-> lookup.helper,
                   address |-> lookup.address, has_key |-> lookup.has_key,
                   fetch |-> lookup.fetch,
                   result |-> HelperOutcome(lookup.helper, lookup.address,
                                            lookup.has_key, lookup.fetch) ]
    /\ cache' = IF lookup.address = "" THEN cache
                ELSE moralis_get(cache, time, lookup.has_key,
                                 HelperKey(lookup.helper, lookup.address),
                                 lookup.fetch).cache
    /\ UNCHANGED <<time, threads, gaddr, gscore, scorerVars, modelVars>>

CallGetter ==
    /\ lookup.kind = "getter_call"
    /\ lookup' = [ kind |-> "getter_done", getter |-> lookup.getter, fetch |-> lookup.fetch,
                   result |-> EthOutcome(lookup.getter, lookup.fetch, FirstClock) ]
    /\ UNCHANGED <<cache, time, threads, gaddr, gscore, scorerVars, modelVars>>

NextHelpers == CallHelper \/ CallGetter

SpecHelpers == InitHelpers /\ [][NextHelpers]_vars

\* C16: the chain-data layer never raises to its caller: whatever the fetch
\* outcome (success, timeout, connection failure, HTTP error status,
\* undecodable body, missing API key, empty address), each helper and each
\* EthereumClient getter returns a value or an error marker, and a timeout
\* gives the same result as a connection failure.
C16_NeverRaises ==
    /\ lookup.kind \in { "helper_done", "getter_done" } => lookup.result.kind = "returned"
    /\ (lookup.kind = "helper_done" /\ lookup.fetch = Failed("timeout")) =>
          lookup.result = HelperOutcome(lookup.helper, lookup.address, lookup.has_key,
                                        Failed("connection"))
    /\ (lookup.kind = "getter_done" /\ lookup.fetch = Failed("timeout")) =>
          lookup.result = EthOutcome(lookup.getter, Failed("connection"), FirstClock)

----------------------------------------------------------------------------
(* Two threads inside _moralis_get on one cache key.  Each statement that  *)
(* touches _cache or reads time.time() is one step; a request is in flight *)
(* between its start and its response.                                     *)

Threads == { "t1", "t2" }

ThreadKey == "moralis::erc20/0xtok/price"

\* time.time() when the two calls begin, and the last instant modelled
ThreadStart == 100
LastInstant == 103

\* the cache the calls meet: empty, or one entry from an earlier fetch that
\* is stale, at the edge of the TTL, about to reach it, or new
OldBody == [kind |-> "dict", usdPrice |-> 149]
ThreadCaches ==
    { EmptyCache } \cup
    { (ThreadKey :> [ts |-> ts, val |-> OldBody]) :
        ts \in { ThreadStart - CACHE_TTL - 1, ThreadStart - CACHE_TTL,
                 ThreadStart - CACHE_TTL + 1, ThreadStart } }

\* the body a thread's request decodes to
ResponseOf(th) == [kind |-> "dict", usdPrice |-> IF th = "t1" THEN 150 ELSE 151]

ThreadFetches(th) == { Ok(ResponseOf(th)), Ok(None), Failed("timeout"), Failed("bad_json") }

\* _set_cache reached for every response
StoredAlways(fetch) == TRUE

\* whether a response reaches _set_cache (lines 76-79): only a decoded one
Stored(fetch) == fetch.outcome = "ok"

\* what the call returns for a response (lines 80-84)
Answer(fetch) ==
    IF fetch.outcome = "ok" THEN fetch.data
    ELSE IF fetch.outcome = "bad_json" THEN ErrorDict("json_decode_failed")
    ELSE ErrorDict("request_failed")

InitThreads ==
    /\ cache \in ThreadCaches
    /\ time = ThreadStart
    /\ lookup \in [ kind : {"env"}, has_key : BOOLEAN ]
    /\ threads = [ th \in Threads |-> [ pc |-> "key", first |-> cache ] ]
    /\ gaddr = "" /\ gscore = None
    /\ ScorerIdle /\ ModelsIdle

ThreadUnchanged == <<lookup, gaddr, gscore, scorerVars, modelVars>>

\* lines 60-62
GetKey(th) ==
    /\ threads[th].pc = "key"
    /\ threads' = [threads EXCEPT ![th] =
          IF lookup.has_key THEN [ pc |-> "get", first |-> cache ]
          ELSE [ pc |-> "done", first |-> cache, issued |-> FALSE,
                 result |-> ErrorDict("no_api_key") ] ]
    /\ UNCHANGED <<cache, time, ThreadUnchanged>>

\* line 12: rec = _cache.get(key)
ReadCache(th) ==
    /\ threads[th].pc = "get"
    /\ threads' = [threads EXCEPT ![th] =
          IF ThreadKey \in DOMAIN cache
          THEN [ pc |-> "check", first |-> @.first, rec |-> cache[ThreadKey] ]
          ELSE [ pc |-> "request", first |-> @.first ] ]
    /\ UNCHANGED <<cache, time, ThreadUnchanged>>

\* lines 15-19 and 71-72: the age test on the entry read, then a hit
CheckAge(th) ==
    /\ threads[th].pc = "check"
    /\ threads' = [threads EXCEPT ![th] =
          IF time - @.rec.ts > CACHE_TTL THEN [ pc |-> "pop", first |-> @.first ]
          ELSE IF @.rec.val # None
          THEN [ pc |-> "done", first |-> @.first, issued |-> FALSE, result |-> @.rec.val ]
          ELSE [ pc |-> "request", first |-> @.first ] ]
    /\ UNCHANGED <<cache, time, ThreadUnchanged>>

\* line 17: _cache.pop(key, None) removes whatever entry the key has now
PopStale(th) ==
    /\ threads[th].pc = "pop"
    /\ cache' = [k \in DOMAIN cache \ {ThreadKey} |-> cache[k]]
    /\ threads' = [threads EXCEPT ![th] = [ pc |-> "request", first |-> @.first ]]
    /\ UNCHANGED <<time, ThreadUnchanged>>

\* line 76: requests.get is called
StartRequest(th) ==
    /\ threads[th].pc = "request"
    /\ threads' = [threads EXCEPT ![th] =
          [ pc |-> "in_flight", first |-> @.first, started |-> time ]]
    /\ UNCHANGED <<cache, time, ThreadUnchanged>>

\* lines 76-84: the response arrives; a decoded body is stored with the
\* time of the store, and the call returns
Respond(th, fetch) ==
    /\ threads[th].pc = "in_flight"
    /\ cache' = IF Stored(fetch) THEN set_cache(cache, ThreadKey, Answer(fetch), time)
                ELSE cache
    /\ threads' = [threads EXCEPT ![th] =
          [ pc |-> "done", first |-> @.first, issued |-> TRUE, started |-> @.started,
            fetch |-> fetch, result |-> Answer(fetch) ]]
    /\ UNCHANGED <<time, ThreadUnchanged>>

\* a second passes while the calls run
Pass ==
    /\ \E th \in Threads : threads[th].pc # "done"
    /\ time + 1 <= LastInstant
    /\ time' = time + 1
    /\ UNCHANGED <<cache, threads, ThreadUnchanged>>

NextThreads ==
    \/ \E th \in Threads : GetKey(th)
    \/ \E th \in Threads : ReadCache(th)
    \/ \E th \in Threads : CheckAge(th)
    \/ \E th \in Threads : PopStale(th)
    \/ \E th \in Threads : StartRequest(th)
    \/ \E th \in Threads : \E fetch \in ThreadFetches(th) : Respond(th, fetch)
    \/ Pass

SpecThreads == InitThreads /\ [][NextThreads]_vars

BothDone == threads # None /\ \A th \in Threads : threads[th].pc = "done"

\* the thread made a request that was answered with a decoded body
Fetched(th) ==
    threads[th].pc = "done" /\ threads[th].issued /\ threads[th].fetch.outcome = "ok"

\* C20: for every interleaving of two concurrent _moralis_get calls on one
\* key, each call returns a response or an error marker, and afterwards the
\* cache holds at most one entry for the key: the one that was there, or the
\* response of one of the successful fetches with a timestamp not earlier
\* than the start of that fetch.
C20_ConcurrentLookups ==
    BothDone =>
        /\ \A th \in Threads :
              \/ IsErrorDict(threads[th].result)
              \/ Fetched(th) /\ threads[th].result = threads[th].fetch.data
              \/ ~threads[th].issued /\ threads[th].result \in { OldBody } \cup
                    { threads[o].fetch.data : o \in { x \in Threads : Fetched(x) } }
        /\ DOMAIN cache \subseteq { ThreadKey }
        /\ ThreadKey \in DOMAIN cache =>
              \/ cache = threads["t1"].first
              \/ \E th \in Threads :
                    /\ Fetched(th)
                    /\ cache[ThreadKey].val = threads[th].fetch.data
                    /\ cache[ThreadKey].ts >= threads[th].started

\* both threads fetched, one after the other stored, and the later store stays
C20_Witness ==
    /\ BothDone
    /\ Fetched("t1") /\ Fetched("t2")
    /\ \A th \in Threads : threads[th].fetch.data = ResponseOf(th)
    /\ ThreadKey \in DOMAIN cache
    /\ cache[ThreadKey].ts > threads["t1"].started
    /\ cache[ThreadKey].ts > threads["t2"].started

----------------------------------------------------------------------------
(* Failed fetches and the cache (under SpecGateway)                        *)

\* the last call was a lookup that ended in an error marker
LookupFailed ==
    lookup # None /\ lookup.kind = "lookup" /\ IsErrorDict(lookup.result)

\* the cache a lookup's read leaves behind: the entry of the key is dropped
\* when it is older than TTL, nothing else changes
AfterRead(l) ==
    IF l.has_key /\ l.key \in DOMAIN l.before
       /\ l.at - l.before[l.key].ts > CACHE_TTL
    THEN [k \in DOMAIN l.before \ {l.key} |-> l.before[k]]
    ELSE l.before

\* C21: a failed fetch is never cached: when _moralis_get ends in an error
\* marker (missing API key, request failure, HTTP error status, timeout,
\* JSON decode failure) the fetch leaves the cache as the read left it;
\* after a failed request the next lookup of the same key issues a new
\* request, and no lookup is answered from the cache with an error marker;
\* only decoded responses are ever stored.
C21_FailedFetchNotCached ==
    /\ LookupFailed =>
          /\ cache = AfterRead(lookup)
          /\ \A fetch \in GatewayFetches :
                LET next == moralis_get(cache, time, TRUE, lookup.key, fetch)
                IN  /\ lookup.issued =>
                          /\ next.issued
                          /\ fetch.outcome = "ok" => next.result = fetch.data
                    /\ ~next.issued => ~IsErrorDict(next.result)
    /\ cache # None =>
          \A k \in DOMAIN cache :
              /\ ~IsErrorDict(cache[k].val)
              /\ Ok(cache[k].val) \in GatewayFetches

\* a request timed out or failed on a key whose stale entry the read had
\* dropped, while the other key's entry stayed
C21_Witness ==
    /\ LookupFailed /\ lookup.has_key /\ lookup.issued
    /\ lookup.key \in DOMAIN lookup.before
    /\ lookup.key \notin DOMAIN cache
    /\ DOMAIN cache # {}
============================================================================
